---- MODULE Spec2Model ----
(***************************************************************************)
(* Verification model of the coursework repository:                        *)
(*   - SJK004_ComputationalIntelligence/vn_star.py  (value iteration)      *)
(*   - SJK006_BigData/0201_numpy.py        (CLI dispatch, ej1_nodos)       *)
(*   - Common.py  (channel catalogue, FileManagement, Serializable,        *)
(*                 MathAndStatistics)                                      *)
(* Every component is a state machine of its own; a specification runs one *)
(* component and keeps the variables of the others at their idle value.    *)
(*                                                                         *)
(* Python strings are modelled as sequences of one-character strings, so   *)
(* that rfind, slicing and substring tests are computed as Python does.    *)
(***************************************************************************)
EXTENDS Integers, Sequences, FiniteSets, TLC

VARIABLES
    Rs,         \* vn_star.py: the reward vector (numerators over Scale)
    VnList,     \* vn_star.py: the list of value vectors
    pcVn,       \* vn_star.py: position of the script
    printed,    \* vn_star.py: what line 17 prints: [Vstar, iterations]
    argv,       \* 0201_numpy.py: the command line after the script name
    pcCli,      \* 0201_numpy.py: position of the script
    ej,         \* 0201_numpy.py: the value loadArgs returned
    ran,        \* 0201_numpy.py: the demonstrations started, in order
    exitCode,   \* 0201_numpy.py: the process exit status, None while running
    lookups,    \* Common.py: the peak-sign lookups made so far
    fs,         \* the filesystem: path |-> "dir", "file" or "locked"
    pre,        \* the filesystem as it was before the last call
    post,       \* the filesystem as the last call left it
    call,       \* the last call of a Common.py operation, with its result
    prev,       \* the call before the last one
    target,     \* the (path, custom_subdir_name) the callers work with
    heap,       \* Serializable objects: id |-> __dict__ (field |-> value)
    text,       \* what the last serialize() returned, with the object's id
    objective_node, \* ej1_nodos: the node the ranking is relative to
    pcEj1,      \* ej1_nodos: position of the function
    x_solved,   \* ej1_nodos: x, what np.linalg.solve returned
    full_x,     \* ej1_nodos: the reconstructed solution
    ranking,    \* ej1_nodos: np.argsort(full_x)
    polyCoefs,  \* poly_eval: the argument coefs
    polyX,      \* poly_eval: the argument x
    polyY,      \* poly_eval: the value returned, None before the call
    pathArg,    \* get_dir_from_filepath: the argument path
    pathRet,    \* get_dir_from_filepath: the value returned, None before
    data,       \* remove_outliers_from_signal: the argument data
    max_stdev,  \* remove_outliers_from_signal: the argument max_stdev
    window_size, \* remove_outliers_from_signal: the argument window_size
    data_removed \* remove_outliers_from_signal: the value returned

vnVars == <<Rs, VnList, pcVn, printed>>

cliVars == <<argv, pcCli, ej, ran, exitCode>>

tblVars == <<lookups>>

fsVars == <<fs, pre, post, call, prev, target>>

serVars == <<heap, text>>

ej1Vars == <<objective_node, pcEj1, x_solved, full_x, ranking>>

polyVars == <<polyCoefs, polyX, polyY>>

pathVars == <<pathArg, pathRet>>

outVars == <<data, max_stdev, window_size, data_removed>>

mathVars == <<ej1Vars, polyVars, pathVars, outVars>>

vars == <<vnVars, cliVars, tblVars, fsVars, serVars, mathVars>>

otherThanVn == <<cliVars, tblVars, fsVars, serVars, mathVars>>

otherThanCli == <<vnVars, tblVars, fsVars, serVars, mathVars>>

otherThanTbl == <<vnVars, cliVars, fsVars, serVars, mathVars>>

otherThanFs == <<vnVars, cliVars, tblVars, serVars, mathVars>>

otherThanSer == <<vnVars, cliVars, tblVars, fsVars, mathVars>>

otherThanEj1 ==
    <<vnVars, cliVars, tblVars, fsVars, serVars, polyVars, pathVars, outVars>>

otherThanPoly ==
    <<vnVars, cliVars, tblVars, fsVars, serVars, ej1Vars, pathVars, outVars>>

otherThanPath ==
    <<vnVars, cliVars, tblVars, fsVars, serVars, ej1Vars, polyVars, outVars>>

otherThanOut ==
    <<vnVars, cliVars, tblVars, fsVars, serVars, ej1Vars, polyVars, pathVars>>

(***************************************************************************)
(* Python values of mixed type are tagged pairs, so that None, an int and  *)
(* a raised exception can be compared with one another.                    *)
(***************************************************************************)
None == <<"None", 0>>

PyInt(n) == <<"int", n>>

Raised(e) == <<"raised", e>>

(***************************************************************************)
(* Python sequence helpers                                                 *)
(***************************************************************************)
Min(a, b) == IF a <= b THEN a ELSE b

Max(a, b) == IF a >= b THEN a ELSE b

Last(s) == s[Len(s)]

\* Python's normalisation of a slice index i for a sequence of length n.
PyIdx(n, i) == IF i < 0 THEN Max(0, n + i) ELSE Min(i, n)

\* s[a:b] with Python's clamping; indices are 0-based, b exclusive.
PySlice(s, a, b) ==
    LET lo == PyIdx(Len(s), a)
        hi == PyIdx(Len(s), b)
    IN  IF lo >= hi THEN <<>> ELSE SubSeq(s, lo + 1, hi)

\* s[a:]
PyFrom(s, a) == PySlice(s, a, Len(s))

\* s[:b]
PyTo(s, b) == PySlice(s, 0, b)

\* c in s, for a one-character c
HasChar(s, c) == \E i \in 1..Len(s) : s[i] = c

\* s.rfind(c): 0-based index of the last occurrence of c, -1 when absent
RFind(s, c) ==
    IF HasChar(s, c)
    THEN (CHOOSE i \in 1..Len(s) :
             s[i] = c /\ \A j \in (i + 1)..Len(s) : s[j] # c) - 1
    ELSE -1

\* sub in s (substring test)
Contains(s, sub) ==
    \E i \in 0..(Len(s) - Len(sub)) : SubSeq(s, i + 1, i + Len(sub)) = sub

(***************************************************************************)
(* vn_star.py: value iteration on a 5-state chain.                         *)
(* Floats are modelled exactly as numerators over Scale = 2^4: with        *)
(* Gamma = 0.5 and rewards in {0, 1} every value the script computes is a  *)
(* multiple of 1/16, which IEEE doubles also represent exactly.            *)
(***************************************************************************)
Scale == 2 ^ 4

NStates == 5

Tsas == 1

\* Gamma = 0.5, as a numerator over Scale
Gamma == Scale \div 2

\* Gamma * x for x a numerator over Scale
TimesGamma(x) == (Gamma * x) \div Scale

\* Mutant: the discount is dropped (Gamma taken as 1).
RecurNoDiscount(v) ==
    [j \in 1..Len(Rs) |->
        IF j < Len(Rs) THEN Tsas * Rs[j] + v[j + 1] ELSE Tsas * Rs[j]]

\* Mutant: a state takes the discounted value of itself, not of its
\* successor.
RecurNoShift(v) ==
    [j \in 1..Len(Rs) |->
        IF j < Len(Rs) THEN Tsas * Rs[j] + TimesGamma(v[j]) ELSE Tsas * Rs[j]]

\* The list comprehension of lines 11 and 14, applied to v = VnList[-1]:
\* Tsas*Rs[j] + Gamma*v[j+1] if j < len(Rs)-1 else Tsas*Rs[j]
Recur(v) ==
    [j \in 1..Len(Rs) |->
        IF j < Len(Rs) THEN Tsas * Rs[j] + TimesGamma(v[j + 1])
        ELSE Tsas * Rs[j]]

\* Bound on len(VnList): the while loop itself has no bound.
MaxVnLen == 9

\* The inputs the script hard-codes (lines 1-2), scaled.
RsScript == <<0, 0, 0, 0, Scale>>

V0Script == <<0, 0, 0, 0, 0>>

InitVn ==
    /\ Rs \in [1..NStates -> {0, Scale}]
    /\ \E V0 \in [1..NStates -> {0, Scale}] : VnList = <<V0>>
    /\ pcVn = "first"
    /\ printed = <<>>

IdleVn ==
    /\ Rs = RsScript
    /\ VnList = <<V0Script>>
    /\ pcVn = "idle"
    /\ printed = <<>>

\* Line 11: the first application of the recurrence, before the loop.
VnFirst ==
    /\ pcVn = "first"
    /\ VnList' = Append(VnList, Recur(Last(VnList)))
    /\ pcVn' = "loop"
    /\ UNCHANGED <<Rs, printed>>
    /\ UNCHANGED otherThanVn

\* Mutant: the loop stops as soon as the first state's value is stable.
VnContinuesFirstOnly == VnList[Len(VnList)][1] # VnList[Len(VnList) - 1][1]

\* Line 13: the loop condition VnList[-1] != VnList[-2]
VnContinues == VnList[Len(VnList)] # VnList[Len(VnList) - 1]

\* Lines 13-15: one iteration of the while loop.
VnStep ==
    /\ pcVn = "loop"
    /\ VnContinues
    /\ Len(VnList) < MaxVnLen
    /\ VnList' = Append(VnList, Recur(Last(VnList)))
    /\ UNCHANGED <<Rs, pcVn, printed>>
    /\ UNCHANGED otherThanVn

\* Lines 13 and 17: the loop exits and the result is printed.
VnExit ==
    /\ pcVn = "loop"
    /\ ~VnContinues
    /\ printed' = <<Last(VnList), Len(VnList) - 2>>
    /\ pcVn' = "done"
    /\ UNCHANGED <<Rs, VnList>>
    /\ UNCHANGED otherThanVn

NextVn == VnFirst \/ VnStep \/ VnExit

(***************************************************************************)
(* SJK006_BigData/0201_numpy.py: loadArgs and the dispatch of __main__.    *)
(* The command line is a sequence of tokens. parse_args is the standard    *)
(* library's parser for the single optional argument the script declares   *)
(* (-n/--number, type=int, not required): it returns the namespace or      *)
(* ends the process with status 2.                                         *)
(***************************************************************************)
Flags == {"-n", "--number"}

IntTokens == {"0", "1", "2", "3"}

Tokens == Flags \cup IntTokens \cup {"x"}

\* int(t) for the tokens that are integers
IntOf(t) == CASE t = "0" -> 0 [] t = "1" -> 1 [] t = "2" -> 2 [] t = "3" -> 3

\* Bound on the number of command-line tokens.
MaxArgs == 2

ParseError == [ok |-> FALSE, number |-> None]

\* parse_args, left to right: number is the value so far (None is the
\* default of an argument that is not required), extras says whether a
\* token no argument takes was seen (reported as an error at the end).
RECURSIVE ParseFrom(_, _, _)
ParseFrom(a, number, extras) ==
    IF a = <<>>
    THEN IF extras THEN ParseError ELSE [ok |-> TRUE, number |-> number]
    ELSE IF Head(a) \in Flags
    THEN IF Len(a) < 2 \/ a[2] \in Flags
         THEN ParseError                      \* expected one argument
         ELSE IF a[2] \in IntTokens
         THEN ParseFrom(Tail(Tail(a)), PyInt(IntOf(a[2])), extras)
         ELSE ParseError                      \* invalid int value
    ELSE ParseFrom(Tail(a), number, TRUE)     \* unrecognized argument

\* Mutant: the argument declared with required=True.
ParseArgsRequired(a) ==
    IF \E i \in 1..Len(a) : a[i] \in Flags
    THEN ParseFrom(a, None, FALSE)
    ELSE ParseError

\* Lines 14-18: the parser with its one argument, applied to the command line.
ParseArgs(a) == ParseFrom(a, None, FALSE)

InitCli ==
    /\ argv \in UNION {[1..n -> Tokens] : n \in 0..MaxArgs}
    /\ pcCli = "start"
    /\ ej = None
    /\ ran = <<>>
    /\ exitCode = None

IdleCli ==
    /\ argv = <<>>
    /\ pcCli = "idle"
    /\ ej = None
    /\ ran = <<>>
    /\ exitCode = None

\* Line 96 (lines 13-20): ej = loadArgs() returns args.number.
LoadArgsOk ==
    /\ pcCli = "start"
    /\ ParseArgs(argv).ok
    /\ ej' = ParseArgs(argv).number
    /\ pcCli' = "match"
    /\ UNCHANGED <<argv, ran, exitCode>>
    /\ UNCHANGED otherThanCli

\* Line 18: parse_args reports the error and exits with status 2.
LoadArgsExit ==
    /\ pcCli = "start"
    /\ ~ParseArgs(argv).ok
    /\ exitCode' = PyInt(2)
    /\ pcCli' = "exit"
    /\ UNCHANGED <<argv, ej, ran>>
    /\ UNCHANGED otherThanCli

\* Lines 97-99: case 2 runs ej2_pandas.
RunEj2 ==
    /\ pcCli = "match"
    /\ ej = PyInt(2)
    /\ ran' = Append(ran, "ej2_pandas")
    /\ pcCli' = "done"
    /\ exitCode' = PyInt(0)
    /\ UNCHANGED <<argv, ej>>
    /\ UNCHANGED otherThanCli

\* Lines 100-101: case _ runs ej1_nodos.
RunEj1 ==
    /\ pcCli = "match"
    /\ ej # PyInt(2)
    /\ ran' = Append(ran, "ej1_nodos")
    /\ pcCli' = "done"
    /\ exitCode' = PyInt(0)
    /\ UNCHANGED <<argv, ej>>
    /\ UNCHANGED otherThanCli

NextCli == LoadArgsOk \/ LoadArgsExit \/ RunEj2 \/ RunEj1

(***************************************************************************)
(* Common.py: the channel catalogue and the peak-sign table.               *)
(***************************************************************************)
\* COLOR_SPACE.CHANNEL: attribute name |-> channel letter (lines 264-284)
CHANNEL ==
    [Red |-> "R", Green |-> "G", Blue |-> "B",
     Hue |-> "H", Saturation |-> "S", Value |-> "V", Lightness |-> "L",
     X |-> "X", Y |-> "Y", Z |-> "Z",
     L |-> "L*", NL |-> "nL*", A |-> "A*", B |-> "B*",
     C |-> "C*", H |-> "H*"]

\* every value of COLOR_SPACE.CHANNEL
ChannelValues == {CHANNEL[a] : a \in DOMAIN CHANNEL}

\* The dict literal of lines 296-312, entry by entry.
PeakTypeEntries ==
    << <<CHANNEL.Red, -1>>, <<CHANNEL.Green, -1>>, <<CHANNEL.Blue, -1>>,
       <<CHANNEL.Hue, -1>>, <<CHANNEL.Saturation, -1>>, <<CHANNEL.Value, -1>>,
       <<CHANNEL.Lightness, -1>>,
       <<CHANNEL.X, -1>>, <<CHANNEL.Y, -1>>, <<CHANNEL.Z, -1>>,
       <<CHANNEL.L, 1>>, <<CHANNEL.A, -1>>, <<CHANNEL.B, -1>>,
       <<CHANNEL.C, -1>>, <<CHANNEL.H, -1>> >>

\* The keys of a dict literal.
DictKeys(entries) == {entries[i][1] : i \in 1..Len(entries)}

\* d[k] for a dict literal: the last entry with key k wins.
DictGet(entries, k) ==
    entries[CHOOSE i \in 1..Len(entries) :
                /\ entries[i][1] = k
                /\ \A j \in (i + 1)..Len(entries) : entries[j][1] # k][2]

\* DICT_peak_types_for_channel[ch]: the value, or KeyError
PeakTypeFor(ch) ==
    IF ch \in DictKeys(PeakTypeEntries)
    THEN PyInt(DictGet(PeakTypeEntries, ch))
    ELSE Raised("KeyError")

\* COLOR_SPACE.* (lines 256-262); HLS is spelled "HSL" in the source.
ColorSpaces == {"RGB", "BGR", "HSV", "HSL", "XYZ", "LAB", "LCH"}

\* DICT_default_target_channel (lines 286-294)
DefaultTargetEntries ==
    << <<"RGB", CHANNEL.Green>>, <<"BGR", CHANNEL.Green>>,
       <<"HSV", CHANNEL.Saturation>>, <<"HSL", CHANNEL.Saturation>>,
       <<"LAB", CHANNEL.L>>, <<"LCH", CHANNEL.C>>, <<"XYZ", CHANNEL.Y>> >>

\* Bound on the number of lookups recorded.
MaxLookups == 2

InitTbl == lookups = <<>>

IdleTbl == lookups = <<>>

\* A caller reads the peak sign of a channel of the catalogue.
LookupChannel ==
    /\ Len(lookups) < MaxLookups
    /\ \E ch \in ChannelValues :
          lookups' = Append(lookups, [channel |-> ch, peak |-> PeakTypeFor(ch)])
    /\ UNCHANGED otherThanTbl

\* A caller reads the peak sign of the default target channel of a space.
LookupDefaultTarget ==
    /\ Len(lookups) < MaxLookups
    /\ \E sp \in ColorSpaces :
          LET ch == DictGet(DefaultTargetEntries, sp)
          IN  lookups' = Append(lookups,
                                [channel |-> ch, peak |-> PeakTypeFor(ch)])
    /\ UNCHANGED otherThanTbl

NextTbl == LookupChannel \/ LookupDefaultTarget

(***************************************************************************)
(* The filesystem the os module acts on.  A path is a Python string; fs    *)
(* maps every existing path to its kind: "dir", "file", or "locked" (a     *)
(* file the OS refuses to remove or overwrite: read-only, or in use).      *)
(* The current directory (the empty relative path) always exists.          *)
(***************************************************************************)
Join(a, b) == a \o <<"/">> \o b

\* The directory an entry lives in; <<>> is the current directory.
ParentOf(p) == IF HasChar(p, "/") THEN PyTo(p, RFind(p, "/")) ELSE <<>>

\* The entry's own name.
NameOf(p) == PyFrom(p, RFind(p, "/") + 1)

\* os.path.exists
Exists(f, p) == p \in DOMAIN f

IsDir(f, p) == p \in DOMAIN f /\ f[p] = "dir"

ParentIsDir(f, p) == p # <<>> /\ (ParentOf(p) = <<>> \/ IsDir(f, ParentOf(p)))

\* os.listdir(d): the names in d; raises unless d is a directory.
ListdirOk(f, d) == IsDir(f, d)

Listdir(f, d) == {NameOf(e) : e \in {x \in DOMAIN f : ParentOf(x) = d}}

\* os.mkdir(p): a single level; raises if p exists or its parent does not.
MkdirOk(f, p) == ~Exists(f, p) /\ ParentIsDir(f, p)

Mkdir(f, p) == (p :> "dir") @@ f

\* os.remove(p): raises for a missing path, a directory, a locked file.
RemoveOk(f, p) == p \in DOMAIN f /\ f[p] = "file"

Without(f, gone) == [x \in DOMAIN f \ gone |-> f[x]]

\* os.rmdir(p): raises unless p is an empty directory.
RmdirOk(f, p) == IsDir(f, p) /\ Listdir(f, p) = {}

\* open(p, "w"): creates or truncates the file; raises if the directory is
\* missing, or p is a directory or a locked file.
OpenWriteOk(f, p) ==
    ParentIsDir(f, p) /\ (~Exists(f, p) \/ f[p] = "file")

OpenWrite(f, p) == (p :> "file") @@ f

\* open(p): raises unless p is a file.
OpenReadOk(f, p) == p \in DOMAIN f /\ f[p] \in {"file", "locked"}

(***************************************************************************)
(* Common.py: FileManagement                                               *)
(***************************************************************************)
\* TEMP_SUBDIR_NAME = "temp" (line 49)
TEMP_SUBDIR_NAME == <<"t", "e", "m", "p">>

\* Lines 487-490.
get_dir_from_filepath(path) ==
    IF HasChar(PyFrom(path, RFind(path, "/")), ".")
    THEN PyTo(path, RFind(path, "/"))
    ELSE path

\* Lines 505-514: the filesystem afterwards and the value returned.
create_dir_if_not_exists(f, dir_path) ==
    LET _path == get_dir_from_filepath(dir_path)
    IN  IF ~Exists(f, _path)
        THEN IF MkdirOk(f, _path)
             THEN [fs |-> Mkdir(f, _path), ret |-> _path]
             ELSE [fs |-> f, ret |-> None]
        ELSE [fs |-> f, ret |-> _path]

\* Lines 527: path.replace("\\", "/")
path_to_python(path) ==
    [i \in 1..Len(path) |-> IF path[i] = "\\" THEN "/" ELSE path[i]]

\* Lines 541-543 and 579-581: the temp directory of a parent path.
TempDirOf(path, custom_subdir_name) ==
    IF custom_subdir_name # None
    THEN Join(path, custom_subdir_name)
    ELSE Join(path, TEMP_SUBDIR_NAME)

\* Lines 541-549: create_dir_if_not_exists does not raise, so the except
\* branch is never taken; stamp is what TimeStamp.formatted() returns.
create_temp_folder(f, path, custom_subdir_name, stamp) ==
    LET temp_dir == TempDirOf(path, custom_subdir_name)
    IN  [fs |-> create_dir_if_not_exists(f, temp_dir).fs,
         ret |-> <<temp_dir, stamp>>]

\* Line 585: the names that contain a "."
FileLike(names) == {x \in names : HasChar(x, ".")}

\* Mutant: the time stamp is not looked at.
MatchingAnyStamp(names, time_stamp) == FileLike(names)

\* Lines 585 and 593: the names delete_temp_files goes on to remove.
Matching(names, time_stamp) ==
    IF time_stamp # None
    THEN {x \in FileLike(names) : Contains(x, time_stamp)}
    ELSE FileLike(names)

\* Mutant: the emptied directory is left in place, the status still says 2.
AfterRemovalKeepDir(f, temp_dir, rmdirAllowed) ==
    IF Listdir(f, temp_dir) = {}
    THEN IF rmdirAllowed
         THEN [fs |-> f, ret |-> PyInt(2)]
         ELSE [fs |-> f, ret |-> PyInt(-1)]
    ELSE [fs |-> f, ret |-> PyInt(0)]

\* Lines 614-624: the directory is removed when it is empty.  rmdirAllowed
\* says whether the OS lets the directory go (it may be in use, or its
\* parent read-only).
AfterRemoval(f, temp_dir, rmdirAllowed) ==
    IF Listdir(f, temp_dir) = {}
    THEN IF rmdirAllowed /\ RmdirOk(f, temp_dir)
         THEN [fs |-> Without(f, {temp_dir}), ret |-> PyInt(2)]
         ELSE [fs |-> f, ret |-> PyInt(-1)]
    ELSE [fs |-> f, ret |-> PyInt(0)]

\* Mutant: a missing temp directory is treated as nothing to do.
ListingFailedNothingToDo(f) == [fs |-> f, ret |-> PyInt(1)]

\* Lines 610-612: os.listdir raised; caught, logged, -1.
ListingFailed(f) == [fs |-> f, ret |-> PyInt(-1)]

\* Mutant: all or nothing: one failing removal keeps every file in place.
RemoveEachAllOrNothing(f, temp_dir, names) ==
    IF \A x \in names : RemoveOk(f, Join(temp_dir, x))
    THEN Without(f, {Join(temp_dir, x) : x \in names})
    ELSE f

\* Mutant: every matching entry is taken to have been removed.
RemoveEachForced(f, temp_dir, names) ==
    Without(f, {Join(temp_dir, x) : x \in names})

\* Lines 603-608: each matching file is removed on its own; a removal that
\* raises is logged and the loop moves on.
RemoveEach(f, temp_dir, names) ==
    Without(f, {Join(temp_dir, x) : x \in {y \in names : RemoveOk(f, Join(temp_dir, y))}})

\* Lines 579-624.
delete_temp_files(f, path, time_stamp, custom_subdir_name, rmdirAllowed) ==
    LET temp_dir == TempDirOf(path, custom_subdir_name)
    IN  IF ~ListdirOk(f, temp_dir)
        THEN ListingFailed(f)
        ELSE IF FileLike(Listdir(f, temp_dir)) = {}
        THEN [fs |-> f, ret |-> PyInt(1)]
        ELSE IF Matching(Listdir(f, temp_dir), time_stamp) = {}
        THEN [fs |-> f, ret |-> PyInt(1)]
        ELSE AfterRemoval(
                 RemoveEach(f, temp_dir,
                            Matching(Listdir(f, temp_dir), time_stamp)),
                 temp_dir, rmdirAllowed)

(***************************************************************************)
(* Common.py: Serializable.to_file and from_file, as far as they touch the *)
(* filesystem.  A result of Raised(e) is an exception that reaches the     *)
(* caller.                                                                 *)
(***************************************************************************)
\* Lines 862-880.
to_file(f, file_path) ==
    LET fp == path_to_python(file_path)
        dir_path == PyTo(fp, RFind(fp, "/"))
    IN  IF ~HasChar(fp, ".")
        THEN [fs |-> f, ret |-> None]
        ELSE IF ~Exists(f, dir_path) /\ ~MkdirOk(f, dir_path)
        THEN [fs |-> f, ret |-> Raised("OSError: mkdir")]
        ELSE LET g == IF Exists(f, dir_path) THEN f ELSE Mkdir(f, dir_path)
             IN  IF ~OpenWriteOk(g, fp)
                 THEN [fs |-> g, ret |-> Raised("OSError: open")]
                 ELSE [fs |-> OpenWrite(g, fp), ret |-> fp]

\* What cls.deserialize does with the text read: the subtype's from_dict
\* returns an object, returns None (the default body, lines 791-792), or
\* raises (as json.loads does on malformed text).
DeserializeOutcomes == {"object", "none", "raises"}

\* Lines 829-852.
from_file(f, json_file_path, outcome) ==
    IF ~OpenReadOk(f, path_to_python(json_file_path))
    THEN [fs |-> f, ret |-> None]
    ELSE IF outcome = "object"
    THEN [fs |-> f, ret |-> <<"object", 0>>]
    ELSE [fs |-> f, ret |-> None]

(***************************************************************************)
(* The filesystem component: callers of the library and the files they     *)
(* write themselves.                                                       *)
(***************************************************************************)
P == <<"p">>

Q == <<"q">>

\* The (path, custom_subdir_name) pairs callers pass.
TempArgs ==
    {<<P, None>>, <<P, <<"c">>>>, <<P, <<"c", ".", "d">>>>, <<Q, None>>}

TempDirs == {TempDirOf(a[1], a[2]) : a \in TempArgs}

\* What TimeStamp.formatted() may return.
Stamps == {<<"1">>, <<"2">>}

\* Names of the files callers write: with a stamp and an extension, and one
\* without extension.
FileNames == {<<"1", ".", "a">>, <<"2", ".", "a">>, <<"1">>}

SubdirNames == {<<"d">>, <<"1", ".", "d">>}

\* Paths passed to to_file and from_file.
FileArgs ==
    {Join(P, <<"o", ".", "j">>), Join(Join(Q, <<"r">>), <<"o", ".", "j">>),
     Join(P, <<"o">>), Join(<<"p", ".", "d">>, <<"o">>)}

\* Paths passed to create_dir_if_not_exists.
DirArgs == {Join(Q, <<"r">>), Join(P, <<"o", ".", "j">>), Join(P, <<"c">>)}

\* Bound on the number of entries callers put into temp directories.
MaxEntries == 2

\* The record of a call; rmdirAllowed is the condition of the OS the call
\* met (TRUE for the calls it does not affect).
CallRecord(op, path, time_stamp, custom, rmdirAllowed, ret) ==
    [op |-> op, path |-> path, time_stamp |-> time_stamp, custom |-> custom,
     rmdirAllowed |-> rmdirAllowed, ret |-> ret]

NoCall == CallRecord("none", <<>>, None, None, TRUE, None)

\* What is kept of the call before the last one: which operation, and what
\* it returned.
Brief(c) == [op |-> c.op, ret |-> c.ret]

\* The parent directory P exists, Q does not; no temp directory yet.
InitFs ==
    /\ fs = (P :> "dir")
    /\ pre = fs
    /\ post = fs
    /\ call = NoCall
    /\ prev = Brief(NoCall)
    /\ target \in TempArgs

IdleFs ==
    /\ fs = (P :> "dir")
    /\ pre = fs
    /\ post = fs
    /\ call = NoCall
    /\ prev = Brief(NoCall)
    /\ target = <<P, None>>

TargetDir == TempDirOf(target[1], target[2])

EntriesInTemp(f) == {e \in DOMAIN f : ParentOf(e) \in TempDirs}

\* A caller writes a file of its own into a temp directory.
WriteFile ==
    /\ Cardinality(EntriesInTemp(fs)) < MaxEntries
    /\ IsDir(fs, TargetDir)
    /\ \E n \in FileNames, k \in {"file", "locked"} :
          /\ ~Exists(fs, Join(TargetDir, n))
          /\ fs' = (Join(TargetDir, n) :> k) @@ fs
    /\ UNCHANGED <<pre, post, call, prev, target>>
    /\ UNCHANGED otherThanFs

\* A caller makes a sub-directory of a temp directory.
MakeSubdir ==
    /\ Cardinality(EntriesInTemp(fs)) < MaxEntries
    /\ IsDir(fs, TargetDir)
    /\ \E n \in SubdirNames :
          /\ MkdirOk(fs, Join(TargetDir, n))
          /\ fs' = Mkdir(fs, Join(TargetDir, n))
    /\ UNCHANGED <<pre, post, call, prev, target>>
    /\ UNCHANGED otherThanFs

CallCreateDir ==
    \E d \in DirArgs :
        LET r == create_dir_if_not_exists(fs, d)
        IN  /\ fs' = r.fs
            /\ pre' = fs
            /\ post' = r.fs
            /\ prev' = Brief(call)
            /\ call' = CallRecord("create_dir_if_not_exists", d, None, None,
                                  TRUE, r.ret)
            /\ UNCHANGED target
            /\ UNCHANGED otherThanFs

CallCreateTempFolder ==
    \E stamp \in Stamps :
        LET r == create_temp_folder(fs, target[1], target[2], stamp)
        IN  /\ fs' = r.fs
            /\ pre' = fs
            /\ post' = r.fs
            /\ prev' = Brief(call)
            /\ call' = CallRecord("create_temp_folder", target[1], None,
                                  target[2], TRUE, r.ret)
            /\ UNCHANGED target
            /\ UNCHANGED otherThanFs

\* The OS may refuse the final os.rmdir; the refusal is a case of its own
\* only for a call that gets as far as os.rmdir.
CallDeleteTempFiles ==
    \E ts \in {None} \cup Stamps, rmdirAllowed \in BOOLEAN :
        LET r == delete_temp_files(fs, target[1], ts, target[2], rmdirAllowed)
        IN  /\ rmdirAllowed
               \/ r # delete_temp_files(fs, target[1], ts, target[2], TRUE)
            /\ fs' = r.fs
            /\ pre' = fs
            /\ post' = r.fs
            /\ prev' = Brief(call)
            /\ call' = CallRecord("delete_temp_files", target[1], ts,
                                  target[2], rmdirAllowed, r.ret)
            /\ UNCHANGED target
            /\ UNCHANGED otherThanFs

CallToFile ==
    \E fp \in FileArgs :
        LET r == to_file(fs, fp)
        IN  /\ fs' = r.fs
            /\ pre' = fs
            /\ post' = r.fs
            /\ prev' = Brief(call)
            /\ call' = CallRecord("to_file", fp, None, None, TRUE, r.ret)
            /\ UNCHANGED target
            /\ UNCHANGED otherThanFs

CallFromFile ==
    \E fp \in FileArgs, outcome \in DeserializeOutcomes :
        LET r == from_file(fs, fp, outcome)
        IN  /\ fs' = r.fs
            /\ pre' = fs
            /\ post' = r.fs
            /\ prev' = Brief(call)
            /\ call' = CallRecord("from_file", fp, None, None, TRUE, r.ret)
            /\ UNCHANGED target
            /\ UNCHANGED otherThanFs

\* Callers that keep transient files: the temp-folder operations and the
\* files and sub-directories the callers put there.
NextTemp ==
    \/ WriteFile
    \/ MakeSubdir
    \/ CallCreateTempFolder
    \/ CallDeleteTempFiles

\* Callers of the I/O-adjacent operations of the library.
NextIo ==
    \/ CallCreateDir
    \/ CallCreateTempFolder
    \/ CallDeleteTempFiles
    \/ CallToFile
    \/ CallFromFile

(***************************************************************************)
(* Common.py: Serializable.  An object is its __dict__, a mapping from     *)
(* field names to values; a value is an int, a reference to a Serializable *)
(* object, or a plain dict.  A JSON document is a number or an object      *)
(* <<"object", origin, members>>: members maps each key of the text to the *)
(* document of its value, and origin records whether the JSON object       *)
(* renders a Serializable ("obj") or a plain dict ("dict").  The order of  *)
(* the keys and the indentation are layout and are not modelled.           *)
(***************************************************************************)
Objs == {1, 2}

FieldA == <<"a">>

FieldPrivB == <<"_", "b">>

FieldOuter == <<"_", "o", "u", "t", "e", "r">>

\* The field names callers assign directly.
FieldNames == {FieldA, FieldPrivB}

Ref(o) == <<"obj", o>>

PyDict(d) == <<"dict", d>>

\* The values callers assign: a number, an object, a dict with a key that
\* starts with an underscore, a dict that holds an object.
FieldValues ==
    {PyInt(0)} \cup {Ref(o) : o \in Objs}
        \cup {PyDict(FieldPrivB :> PyInt(0)), PyDict(FieldA :> Ref(2))}

\* Mutant: nothing is excluded.
exclude_nothing(d) == d

\* Lines 774-778: the copy of __dict__ without the keys that start with "_".
exclude_private(d) == [k \in {x \in DOMAIN d : x[1] # "_"} |-> d[k]]

\* json.dumps(self, default=lambda o: o.exclude_private(), ...) (line 816):
\* a dict is rendered key by key; an object the encoder does not know is
\* replaced by default(o) and that is rendered; an object met again while
\* it is being rendered is a circular reference, which raises ValueError.
RECURSIVE Encode(_, _, _)
Encode(h, v, visiting) ==
    IF v[1] = "int" THEN <<"number", v[2]>>
    ELSE IF v[1] = "obj" /\ v[2] \in visiting THEN Raised("ValueError")
    ELSE LET m == IF v[1] = "obj" THEN exclude_private(h[v[2]]) ELSE v[2]
             inside == IF v[1] = "obj" THEN visiting \cup {v[2]} ELSE visiting
             docs == [k \in DOMAIN m |-> Encode(h, m[k], inside)]
         IN  IF \E k \in DOMAIN m : docs[k][1] = "raised"
             THEN Raised("ValueError")
             ELSE <<"object", v[1], docs>>

\* Lines 809-816.
serialize(h, o) == Encode(h, Ref(o), {})

NoText == [of |-> 0, doc |-> None]

InitSer ==
    /\ heap = [o \in Objs |-> <<>>]
    /\ text = NoText

IdleSer ==
    /\ heap = [o \in Objs |-> <<>>]
    /\ text = NoText

\* setattr(o, k, v): a field assignment.
SetField ==
    /\ \E o \in Objs, k \in FieldNames, v \in FieldValues :
          heap' = [heap EXCEPT ![o] = (k :> v) @@ heap[o]]
    /\ text' = NoText
    /\ UNCHANGED otherThanSer

\* Lines 891-899: self._outer = outer
pass_outer ==
    /\ \E o \in Objs, outer \in Objs :
          heap' = [heap EXCEPT ![o] = (FieldOuter :> Ref(outer)) @@ heap[o]]
    /\ text' = NoText
    /\ UNCHANGED otherThanSer

CallSerialize ==
    /\ \E o \in Objs : text' = [of |-> o, doc |-> serialize(heap, o)]
    /\ UNCHANGED heap
    /\ UNCHANGED otherThanSer

NextSer == SetField \/ pass_outer \/ CallSerialize

(***************************************************************************)
(* SJK006_BigData/0201_numpy.py: ej1_nodos, lines 47-77 (the drawing of    *)
(* the graph, lines 31-43, does not touch the values computed).            *)
(* Indices are 1-based here and 0-based in the source: node i of the       *)
(* source is position i + 1.                                               *)
(*                                                                         *)
(* np.linalg.solve returns floats.  The exact solution of M x = rhs is the *)
(* vector of Cramer quotients Det(M with column k replaced by rhs)/Det(M); *)
(* what the call returns is that vector up to a rounding error, which for  *)
(* these well-conditioned 4x4 systems is far below 1/Tol.  A returned      *)
(* entry is modelled as the exact value, or the exact value moved by the   *)
(* whole tolerance either way.  All entries are numerators over one        *)
(* denominator, |Det(M)| * Tol.                                            *)
(***************************************************************************)
Abs(i) == IF i < 0 THEN -i ELSE i

RECURSIVE SumSeq(_)
SumSeq(s) == IF s = <<>> THEN 0 ELSE s[1] + SumSeq(Tail(s))

\* Lines 24-28.
A ==
    << <<0, 2, 5, 0, 0>>,
       <<2, 0, 3, 4, 0>>,
       <<5, 3, 0, 2, 0>>,
       <<0, 4, 2, 0, 1>>,
       <<0, 0, 0, 1, 0>> >>

\* Line 47: n = A.shape[0]
n_nodes == Len(A)

\* Line 52: degrees = np.sum(A, axis=1)
degrees == [i \in 1..n_nodes |-> SumSeq(A[i])]

\* Lines 53 and 56: L = np.diag(degrees) - A
L ==
    [i \in 1..n_nodes |->
        [j \in 1..n_nodes |-> (IF i = j THEN degrees[i] ELSE 0) - A[i][j]]]

\* Lines 60-61: all True but the objective node.
mask(obj) == [i \in 1..n_nodes |-> i # obj + 1]

\* The positions a boolean mask selects, in ascending order.
Selected(m) == SelectSeq([i \in 1..Len(m) |-> i], LAMBDA i : m[i])

\* Line 62: L[mask][:, mask]
L_reduced(obj) ==
    LET keep == Selected(mask(obj))
    IN  [r \in 1..Len(keep) |-> [c \in 1..Len(keep) |-> L[keep[r]][keep[c]]]]

\* Line 65: b = np.ones(n - 1)
b_ones(m) == [i \in 1..m |-> 1]

\* M without its first row and its column j.
Minor(M, j) ==
    [r \in 1..(Len(M) - 1) |->
        [c \in 1..(Len(M) - 1) |-> M[r + 1][IF c < j THEN c ELSE c + 1]]]

\* The determinant, by expansion along the first row.
RECURSIVE Det(_)
Det(M) ==
    IF Len(M) = 0 THEN 1
    ELSE SumSeq([j \in 1..Len(M) |->
                    (IF j % 2 = 1 THEN 1 ELSE -1) * M[1][j] * Det(Minor(M, j))])

\* M with its column k replaced by col.
WithColumn(M, k, col) ==
    [r \in 1..Len(M) |-> [c \in 1..Len(M) |-> IF c = k THEN col[r] ELSE M[r][c]]]

\* The numerators, over Det(M), of the exact solution of M x = rhs.
Cramer(M, rhs) == [k \in 1..Len(M) |-> Det(WithColumn(M, k, rhs))]

\* The resolution of the rounding model: a returned entry is within 1/Tol
\* of the exact one.
Tol == 2 ^ 10

Rounding == {-1, 0, 1}

\* Line 66: what np.linalg.solve(M, rhs) may return for a non-singular M.
linalg_solve(M, rhs) ==
    LET sg == IF Det(M) > 0 THEN 1 ELSE -1
    IN  {[num |-> [k \in 1..Len(M) |->
                      sg * Cramer(M, rhs)[k] * Tol + e[k] * sg * Det(M)],
          den |-> sg * Det(M) * Tol] : e \in [1..Len(M) -> Rounding]}

\* Mutant: the solved values are placed at the first positions.
ReconstructFront(m, xs) ==
    [i \in 1..Len(m) |-> IF i <= Len(xs) THEN xs[i] ELSE 0]

\* Lines 69-70: full_x = np.zeros(n); full_x[mask] = x
Reconstruct(m, xs) ==
    [i \in 1..Len(m) |->
        IF m[i] THEN xs[Cardinality({j \in 1..i : m[j]})] ELSE 0]

\* Line 74: np.argsort(v): the (0-based) indices in an order that sorts v
\* ascending; the default sort is not stable, so equal values may come in
\* either order.
argsort(v) ==
    {p \in [1..Len(v) -> 0..(Len(v) - 1)] :
        /\ \A i, j \in 1..Len(v) : i < j => p[i] # p[j]
        /\ \A i \in 1..(Len(v) - 1) : v[p[i] + 1] <= v[p[i + 1] + 1]}

NoVector == [num |-> <<>>, den |-> 1]

\* objective_node is the function's parameter (line 49, "#@param").
InitEj1 ==
    /\ objective_node \in 0..(n_nodes - 1)
    /\ pcEj1 = "start"
    /\ x_solved = NoVector
    /\ full_x = NoVector
    /\ ranking = <<>>

IdleEj1 ==
    /\ objective_node = 1
    /\ pcEj1 = "idle"
    /\ x_solved = NoVector
    /\ full_x = NoVector
    /\ ranking = <<>>

\* Lines 47-66.  The graph is connected, so L_reduced is not singular for
\* any objective node.
Ej1Solve ==
    /\ pcEj1 = "start"
    /\ Det(L_reduced(objective_node)) # 0
    /\ x_solved' \in linalg_solve(L_reduced(objective_node),
                                  b_ones(n_nodes - 1))
    /\ pcEj1' = "solved"
    /\ UNCHANGED <<objective_node, full_x, ranking>>
    /\ UNCHANGED otherThanEj1

\* Lines 69-70.
Ej1Reconstruct ==
    /\ pcEj1 = "solved"
    /\ full_x' = [num |-> Reconstruct(mask(objective_node), x_solved.num),
                  den |-> x_solved.den]
    /\ pcEj1' = "reconstructed"
    /\ UNCHANGED <<objective_node, x_solved, ranking>>
    /\ UNCHANGED otherThanEj1

\* Lines 74-77.
Ej1Rank ==
    /\ pcEj1 = "reconstructed"
    /\ ranking' \in argsort(full_x.num)
    /\ pcEj1' = "ranked"
    /\ UNCHANGED <<objective_node, x_solved, full_x>>
    /\ UNCHANGED otherThanEj1

NextEj1 == Ej1Solve \/ Ej1Reconstruct \/ Ej1Rank

(***************************************************************************)
(* Common.py: MathAndStatistics.poly_eval, called on Python ints (which do *)
(* not overflow).                                                          *)
(***************************************************************************)
\* Lines 690-691: the loop "for a in coefs: y = y*x + a", y being the value
\* accumulated so far.
RECURSIVE HornerFrom(_, _, _)
HornerFrom(coefs, x0, acc) ==
    IF coefs = <<>> THEN acc
    ELSE HornerFrom(Tail(coefs), x0, acc * x0 + coefs[1])

\* Mutant: the coefficients are taken lowest power first.
poly_eval_low_first(coefs, x0) ==
    HornerFrom([i \in 1..Len(coefs) |-> coefs[Len(coefs) + 1 - i]], x0, 0)

\* Lines 688-693.
poly_eval(coefs, x0) == HornerFrom(coefs, x0, 0)

\* Bounds on the arguments: the number of coefficients, and the absolute
\* value of a coefficient and of x.
MaxCoefs == 3

MaxAbs == 2

InitPoly ==
    /\ polyCoefs \in UNION {[1..m -> (-MaxAbs)..MaxAbs] : m \in 0..MaxCoefs}
    /\ polyX \in (-MaxAbs)..MaxAbs
    /\ polyY = None

IdlePoly ==
    /\ polyCoefs = <<>>
    /\ polyX = 0
    /\ polyY = None

CallPolyEval ==
    /\ polyY = None
    /\ polyY' = PyInt(poly_eval(polyCoefs, polyX))
    /\ UNCHANGED <<polyCoefs, polyX>>
    /\ UNCHANGED otherThanPoly

NextPoly == CallPolyEval

(***************************************************************************)
(* Common.py: FileManagement.get_dir_from_filepath on its own, for paths   *)
(* of every shape: with and without "/", with and without ".".             *)
(***************************************************************************)
PyStr(s) == <<"str", s>>

PathChars == {"a", ".", "/"}

MaxPathLen == 4

InitPath ==
    /\ pathArg \in UNION {[1..m -> PathChars] : m \in 0..MaxPathLen}
    /\ pathRet = None

IdlePath ==
    /\ pathArg = <<>>
    /\ pathRet = None

CallGetDir ==
    /\ pathRet = None
    /\ pathRet' = PyStr(get_dir_from_filepath(pathArg))
    /\ UNCHANGED pathArg
    /\ UNCHANGED otherThanPath

NextPath == CallGetDir

(***************************************************************************)
(* Common.py: MathAndStatistics.remove_outliers_from_signal, on signals of *)
(* ints.  The median of an even number of values is the mean of the two    *)
(* middle ones, so medians are kept doubled: Median2(s) is 2 * median(s).  *)
(* An element of the result is NaN or a quotient <<"num", p, q>>, p / q.   *)
(* The divisions and comparisons of the source are exact on these values:  *)
(* the quotients of small ints it compares with max_stdev are never within *)
(* a rounding error of it without being equal to it.                       *)
(***************************************************************************)
\* s in ascending order.
RECURSIVE Sorted(_)
Sorted(s) ==
    IF s = <<>> THEN <<>>
    ELSE LET k == CHOOSE i \in 1..Len(s) : \A j \in 1..Len(s) : s[i] <= s[j]
         IN  <<s[k]>> \o Sorted(SubSeq(s, 1, k - 1) \o SubSeq(s, k + 1, Len(s)))

\* 2 * np.median(s), for a non-empty s.
Median2(s) ==
    LET t == Sorted(s)
        h == Len(s) \div 2
    IN  IF Len(s) % 2 = 1 THEN 2 * t[h + 1] ELSE t[h] + t[h + 1]

\* Line 730: _d = np.abs(data - np.median(data)), doubled.
Dev2(d) == [i \in 1..Len(d) |-> Abs(2 * d[i] - Median2(d))]

\* Line 731: _mdev = np.median(_d), times 4.
Mdev4(d) == Median2(Dev2(d))

\* Mutant: a score equal to max_stdev is accepted too.
KeptAtThreshold(d, i, maxs) ==
    IF Mdev4(d) = 0 THEN 0 <= maxs
    ELSE 2 * Dev2(d)[i + 1] <= maxs * Mdev4(d)

\* Lines 732 and 734: _s[i] < max_stdev, where _s is _d / _mdev, or all
\* zeros when _mdev is 0.  i is the 0-based index of the source.
Kept(d, i, maxs) ==
    IF Mdev4(d) = 0 THEN 0 < maxs
    ELSE 2 * Dev2(d)[i + 1] < maxs * Mdev4(d)

\* Lines 735-737: the two slices of s around i, concatenated.
Window(s, i, wsize) ==
    PySlice(s, i - wsize \div 2, i - 1) \o PySlice(s, i + 1, i + wsize \div 2)

NaN == <<"nan", 0, 0>>

Num(p, q) == <<"num", p, q>>

\* np.average of a sequence: NaN (with a warning) for an empty one.
average(s) == IF s = <<>> THEN NaN ELSE Num(SumSeq(s), Len(s))

\* Lines 734-738.
remove_outliers_from_signal(d, maxs, wsize) ==
    [k \in 1..Len(d) |->
        IF Kept(d, k - 1, maxs) THEN Num(d[k], 1)
        ELSE average(Window(d, k - 1, wsize))]

\* The signals, thresholds and window sizes callers pass.
SignalValues == {0, 1, 5}

MaxSignalLen == 5

MaxWindow == 6

StdevValues == {-1, 0, 1, 3}

NotCalled == <<"None", <<>>>>

Returned(s) == <<"list", s>>

InitOut ==
    /\ data \in UNION {[1..m -> SignalValues] : m \in 1..MaxSignalLen}
    /\ max_stdev \in StdevValues
    /\ window_size \in 0..MaxWindow
    /\ data_removed = NotCalled

IdleOut ==
    /\ data = <<0>>
    /\ max_stdev = 3
    /\ window_size = 30
    /\ data_removed = NotCalled

\* The call builds a new list; data is only read.
CallRemoveOutliers ==
    /\ data_removed = NotCalled
    /\ data_removed' =
           Returned(remove_outliers_from_signal(data, max_stdev, window_size))
    /\ UNCHANGED <<data, max_stdev, window_size>>
    /\ UNCHANGED otherThanOut

NextOut == CallRemoveOutliers

\* Every component but the one a specification runs is idle.
IdleMath == IdleEj1 /\ IdlePoly /\ IdlePath /\ IdleOut

(***************************************************************************)
(* Specifications                                                          *)
(***************************************************************************)
\* The script runs to completion: each step is taken when it is enabled.
InitSpecCli == InitCli /\ IdleVn /\ IdleTbl /\ IdleFs /\ IdleSer /\ IdleMath

SpecCli ==
    /\ InitSpecCli
    /\ [][NextCli]_vars
    /\ WF_vars(NextCli)

InitSpecTbl == InitTbl /\ IdleVn /\ IdleCli /\ IdleFs /\ IdleSer /\ IdleMath

SpecTbl ==
    /\ InitSpecTbl
    /\ [][NextTbl]_vars

\* Callers may stop at any point: no fairness is assumed.
InitSpecTemp == InitFs /\ IdleVn /\ IdleCli /\ IdleTbl /\ IdleSer /\ IdleMath

SpecTemp ==
    /\ InitSpecTemp
    /\ [][NextTemp]_vars

InitSpecIo == InitFs /\ IdleVn /\ IdleCli /\ IdleTbl /\ IdleSer /\ IdleMath

SpecIo ==
    /\ InitSpecIo
    /\ [][NextIo]_vars

InitSpecSer == InitSer /\ IdleVn /\ IdleCli /\ IdleTbl /\ IdleFs /\ IdleMath

SpecSer ==
    /\ InitSpecSer
    /\ [][NextSer]_vars

InitSpecVn == InitVn /\ IdleCli /\ IdleTbl /\ IdleFs /\ IdleSer /\ IdleMath

SpecVn ==
    /\ InitSpecVn
    /\ [][NextVn]_vars
    /\ WF_vars(NextVn)

IdleLibrary == IdleVn /\ IdleCli /\ IdleTbl /\ IdleFs /\ IdleSer

InitSpecEj1 == InitEj1 /\ IdleLibrary /\ IdlePoly /\ IdlePath /\ IdleOut

SpecEj1 ==
    /\ InitSpecEj1
    /\ [][NextEj1]_vars

InitSpecPoly == InitPoly /\ IdleLibrary /\ IdleEj1 /\ IdlePath /\ IdleOut

SpecPoly ==
    /\ InitSpecPoly
    /\ [][NextPoly]_vars

InitSpecPath == InitPath /\ IdleLibrary /\ IdleEj1 /\ IdlePoly /\ IdleOut

SpecPath ==
    /\ InitSpecPath
    /\ [][NextPath]_vars

InitSpecOut == InitOut /\ IdleLibrary /\ IdleEj1 /\ IdlePoly /\ IdlePath

SpecOut ==
    /\ InitSpecOut
    /\ [][NextOut]_vars

ScriptInputs == Rs = RsScript /\ VnList[1] = V0Script

\* C1: with the script's inputs the loop terminates, and at termination the
\* last vector of VnList is [0.0625, 0.125, 0.25, 0.5, 1.0].
C1_Converges ==
    (pcVn = "first" /\ ScriptInputs)
        ~> (pcVn = "done" /\ Last(VnList) = <<1, 2, 4, 8, 16>>)

C1_Witness ==
    /\ pcVn = "done"
    /\ ScriptInputs
    /\ Last(VnList) = <<1, 2, 4, 8, 16>>
    /\ VnList[Len(VnList) - 1] = Last(VnList)

\* C2 (as stated): at loop exit VnList holds exactly 6 vectors and the
\* reported iteration count is 4.
C2_Original ==
    (pcVn = "done" /\ ScriptInputs)
        => (Len(VnList) = 6 /\ printed[2] = 4)

\* C2 (amended): at loop exit VnList holds exactly 7 vectors (the converged
\* vector appears at index 5 and once more at index 6, which is what makes
\* the equality test succeed) and the reported iteration count is 5.
C2_Amended ==
    (pcVn = "done" /\ ScriptInputs)
        => (Len(VnList) = 7 /\ printed[2] = 5 /\ printed[2] = Len(VnList) - 2)

C2_Witness ==
    /\ pcVn = "done"
    /\ ScriptInputs
    /\ Len(VnList) = 7
    /\ VnList[6] = VnList[7]
    /\ VnList[5] # VnList[6]

NoFlag == \A i \in 1..Len(argv) : argv[i] \notin Flags

C10_Original ==
    \A i \in 1..Len(lookups) :
        /\ lookups[i].channel \in ChannelValues
        /\ lookups[i].peak = PyInt(IF lookups[i].channel = "L*" THEN 1 ELSE -1)

\* The last call was delete_temp_files on the callers' temp directory.
Deleted == call.op = "delete_temp_files"

\* What a directory of filesystem f holds, by name.
EntriesOf(f, d) == {e \in DOMAIN f : ParentOf(e) = d}

\* The state create_temp_folder and one written file lead to: the temp
\* directory holds exactly one entry, an ordinary file.
OneFileWritten(f) ==
    /\ IsDir(f, TargetDir)
    /\ \E n \in FileNames :
          /\ EntriesOf(f, TargetDir) = {Join(TargetDir, n)}
          /\ f[Join(TargetDir, n)] = "file"

\* C3 (as stated): create_temp_folder(path), one file written into the
\* returned directory, delete_temp_files(path) with no time_stamp: the call
\* returns 2 and neither the file nor the temp directory exists afterwards,
\* whatever the names of the sub-directory and of the file.
C3_Original ==
    (/\ Deleted
     /\ call.time_stamp = None
     /\ call.rmdirAllowed
     /\ prev.op = "create_temp_folder"
     /\ prev.ret[1] = TargetDir
     /\ OneFileWritten(pre))
        => /\ call.ret = PyInt(2)
           /\ ~Exists(post, TargetDir)
           /\ EntriesOf(post, TargetDir) = {}

\* C4 (as stated): delete_temp_files on a temp directory that does not
\* exist returns 1.
C4_Original ==
    (Deleted /\ ~IsDir(pre, TargetDir)) => call.ret = PyInt(1)

\* C4 (amended): delete_temp_files on a temp directory that does not exist
\* raises nothing and changes nothing, and returns the error status -1.
C4_Amended ==
    (Deleted /\ ~IsDir(pre, TargetDir))
        => /\ call.ret = PyInt(-1)
           /\ post = pre

\* A second cleanup right after one that returned 2.
C4_Witness ==
    /\ Deleted
    /\ prev.op = "delete_temp_files"
    /\ prev.ret = PyInt(2)
    /\ ~IsDir(pre, TargetDir)
    /\ pre = post
    /\ call.ret = PyInt(-1)

\* C7 (as stated): no I/O-adjacent operation of the library raises to its
\* caller.
C7_Original == call.ret[1] # "raised"

\* C8: the status delete_temp_files returns matches the filesystem it
\* leaves: 2, the temp directory is gone; 0, it is still there and not
\* empty; 1, nothing was removed.
C8_StatusMatches ==
    Deleted =>
        /\ call.ret = PyInt(2) => ~Exists(post, TargetDir)
        /\ call.ret = PyInt(0)
              => IsDir(post, TargetDir) /\ Listdir(post, TargetDir) # {}
        /\ call.ret = PyInt(1) => post = pre

C8_Witness ==
    /\ Deleted
    /\ call.ret = PyInt(2)
    /\ IsDir(pre, TargetDir)
    /\ EntriesOf(pre, TargetDir) # {}
    /\ ~Exists(post, TargetDir)

\* The same contents with no file refusing removal.
Unlocked(f) == [x \in DOMAIN f |-> IF f[x] = "locked" THEN "file" ELSE f[x]]

\* The matching files of the last call whose removal failed.
FailedRemovals ==
    {x \in Matching(Listdir(pre, TargetDir), call.time_stamp) :
        ~RemoveOk(pre, Join(TargetDir, x))}

\* C9 (as stated): the status is the one the call returns on the same
\* contents and arguments when no removal fails.
C9_Original ==
    Deleted =>
        call.ret = delete_temp_files(Unlocked(pre), call.path, call.time_stamp,
                                     call.custom, call.rmdirAllowed).ret

\* C9 (amended): a per-file removal failure never yields the error status,
\* but it decides between 0 and 2: when the removal of a matching file
\* fails, the file stays and the call returns 0.
C9_Amended ==
    (Deleted /\ IsDir(pre, TargetDir) /\ FailedRemovals # {})
        => /\ call.ret = PyInt(0)
           /\ \A x \in FailedRemovals : Exists(post, Join(TargetDir, x))

\* One locked matching file alone: 0 where the unlocked file gives 2.
C9_Witness ==
    /\ Deleted
    /\ IsDir(pre, TargetDir)
    /\ FailedRemovals # {}
    /\ call.ret = PyInt(0)
    /\ delete_temp_files(Unlocked(pre), call.path, call.time_stamp,
                         call.custom, call.rmdirAllowed).ret = PyInt(2)

\* serialize() returned a text (it did not raise).
Serialized == text.of \in Objs /\ text.doc[1] = "object"

\* The JSON objects of a document, at any depth.
RECURSIVE Nodes(_)
Nodes(doc) ==
    IF doc[1] # "object" THEN {}
    ELSE {doc} \cup UNION {Nodes(doc[3][k]) : k \in DOMAIN doc[3]}

\* C6 (as stated): the text serialize() returns has no key that begins with
\* an underscore, at any nesting depth.
C6_Original ==
    Serialized =>
        \A n \in Nodes(text.doc) : \A k \in DOMAIN n[3] : k[1] # "_"

\* C6 (amended): no JSON object of the text that renders a Serializable
\* (the object itself or one nested in it, at any depth) has a key that
\* begins with an underscore, so _outer never appears among an object's
\* fields; the keys of a plain dict held in a field are emitted as they are.
C6_Amended ==
    Serialized =>
        \A n \in Nodes(text.doc) :
            n[2] = "obj" => \A k \in DOMAIN n[3] : k[1] # "_"

\* An object with _outer set by pass_outer and another private field,
\* holding a nested object with private fields of its own, was serialized.
C6_Witness ==
    /\ Serialized
    /\ FieldOuter \in DOMAIN heap[text.of]
    /\ FieldPrivB \in DOMAIN heap[text.of]
    /\ \E n \in Nodes(text.doc) :
          /\ n # text.doc
          /\ n[2] = "obj"
    /\ \E o \in Objs \ {text.of} :
          /\ heap[text.of][FieldA] = Ref(o)
          /\ FieldOuter \in DOMAIN heap[o]

\* The residual of row r of M x = ones for the numerators v over den,
\* times den.
Residual(M, v, den, r) ==
    SumSeq([c \in 1..Len(M) |-> M[r][c] * v[c]]) - den

\* C11: in ej1_nodos with objective node 1, x solves L_reduced * x = ones
\* (every residual is within the rounding of the solver), the reconstructed
\* full_x has full_x[1] exactly 0 and every other entry strictly positive,
\* and the ascending ranking puts index 1 first.
C11_ObjectiveFirst ==
    (objective_node = 1 /\ pcEj1 \in {"reconstructed", "ranked"}) =>
        /\ \A r \in 1..(n_nodes - 1) :
              Abs(Residual(L_reduced(1), x_solved.num, x_solved.den, r)) * Tol
                  <= SumSeq([c \in 1..(n_nodes - 1) |->
                                Abs(L_reduced(1)[r][c])]) * x_solved.den
        /\ Len(full_x.num) = n_nodes
        /\ full_x.num[2] = 0
        /\ \A i \in 1..n_nodes : i # 2 => full_x.num[i] > 0
        /\ pcEj1 = "ranked" => ranking[1] = 1

C11_Witness ==
    /\ objective_node = 1
    /\ pcEj1 = "ranked"
    /\ ranking[1] = 1
    /\ full_x.num[2] = 0
    /\ \A i \in 1..n_nodes : i # 2 => full_x.num[i] > 0

Called == data_removed[1] = "list"

Constant == \A i, j \in 1..Len(data) : data[i] = data[j]

\* The element r of the result has the value of the int v.
SameValue(r, v) == r[1] = "num" /\ r[2] = v * r[3]

\* C12 as stated: for a constant signal the result equals the input for
\* every max_stdev and every window_size.
C12_Original ==
    (Called /\ Constant) =>
        /\ Len(data_removed[2]) = Len(data)
        /\ \A k \in 1..Len(data) : SameValue(data_removed[2][k], data[k])

\* C12 amended: for a constant signal the result equals the input when
\* max_stdev > 0; when max_stdev <= 0 no element passes the test
\* 0 < max_stdev and each is replaced by the average of its window, which
\* is the same value when the window is not empty and NaN when it is.
C12_Amended ==
    (Called /\ Constant) =>
        /\ Len(data_removed[2]) = Len(data)
        /\ \A k \in 1..Len(data) :
              IF max_stdev > 0 \/ Window(data, k - 1, window_size) # <<>>
              THEN SameValue(data_removed[2][k], data[k])
              ELSE data_removed[2][k] = NaN

C12_Witness ==
    /\ Called
    /\ Constant
    /\ max_stdev <= 0
    /\ \E k \in 1..Len(data) : data_removed[2][k] = NaN
    /\ \E k \in 1..Len(data) : SameValue(data_removed[2][k], data[k])

\* base to the power e, for e >= 0; as in Python, the power 0 is 1.
RECURSIVE Pow(_, _)
Pow(base, e) == IF e = 0 THEN 1 ELSE base * Pow(base, e - 1)

\* C13: poly_eval(coefs, x) is the sum of coefs[i] * x^(len(coefs)-1-i) over
\* all i, and 0 for an empty coefficient list.
C13_PolynomialSum ==
    polyY # None =>
        /\ polyY = PyInt(SumSeq([i \in 1..Len(polyCoefs) |->
                       polyCoefs[i] * Pow(polyX, Len(polyCoefs) - i)]))
        /\ polyCoefs = <<>> => polyY = PyInt(0)

C13_Witness ==
    /\ polyY = PyInt(3)
    /\ polyCoefs = <<1, -2, 0>>
    /\ polyX = -1

\* The names the last delete_temp_files call went on to remove.
Attempted == Matching(Listdir(pre, TargetDir), call.time_stamp)

\* C14: delete_temp_files is best-effort: when the removal of a matching
\* file fails, every other matching file whose own removal succeeds is
\* removed all the same, and the call does not return -1.
C14_BestEffort ==
    (Deleted /\ IsDir(pre, TargetDir) /\ FailedRemovals # {})
        => /\ \A x \in Attempted \ FailedRemovals :
                 ~Exists(post, Join(TargetDir, x))
           /\ call.ret # PyInt(-1)

\* One matching file refused removal and another one was removed.
C14_Witness ==
    /\ Deleted
    /\ IsDir(pre, TargetDir)
    /\ FailedRemovals # {}
    /\ \E x \in Attempted \ FailedRemovals :
          /\ Exists(pre, Join(TargetDir, x))
          /\ ~Exists(post, Join(TargetDir, x))
    /\ call.ret = PyInt(0)

\* The entry e of the filesystem is the same before and after the call.
Untouched(e) == Exists(post, e) /\ post[e] = pre[e]

\* The entry e is one the last delete_temp_files call is to remove: it
\* lies in the temp directory, and its name has a "." and the time stamp.
Targeted(e) ==
    /\ ParentOf(e) = TargetDir
    /\ HasChar(NameOf(e), ".")
    /\ Contains(NameOf(e), call.time_stamp)

\* C15 as stated: delete_temp_files(path, time_stamp=ts) removes only
\* entries of the temp directory whose name contains a "." and ts; every
\* other path is left as it was.
C15_Original ==
    (Deleted /\ call.time_stamp # None) =>
        /\ DOMAIN post \subseteq DOMAIN pre
        /\ \A e \in DOMAIN pre : Targeted(e) \/ Untouched(e)

\* C15 amended: besides the entries of the temp directory whose name
\* contains a "." and ts, the call removes the temp directory itself, and
\* that exactly when it returns 2; every other path is left as it was.
C15_Amended ==
    (Deleted /\ call.time_stamp # None) =>
        /\ DOMAIN post \subseteq DOMAIN pre
        /\ \A e \in DOMAIN pre \ {TargetDir} : Targeted(e) \/ Untouched(e)
        /\ IsDir(pre, TargetDir) =>
              (Untouched(TargetDir) <=> call.ret # PyInt(2))
        /\ call.ret = PyInt(2) => ~Exists(post, TargetDir)

\* A file with the time stamp went, a file with another stamp stayed.
C15_Witness ==
    /\ Deleted
    /\ call.time_stamp # None
    /\ \E e \in DOMAIN pre : Targeted(e) /\ ~Exists(post, e)
    /\ \E e \in DOMAIN pre :
          /\ ParentOf(e) = TargetDir
          /\ HasChar(NameOf(e), ".")
          /\ pre[e] = "file"
          /\ ~Targeted(e)
          /\ Untouched(e)

\* C16 as stated: after create_temp_folder(path, custom_subdir_name) with
\* path an existing directory, the directory named by the first element of
\* the returned pair exists, for any custom name.
C16_Original ==
    (call.op = "create_temp_folder" /\ IsDir(pre, call.path))
        => /\ call.ret[1] = TempDirOf(call.path, call.custom)
           /\ IsDir(post, call.ret[1])

\* C17 as stated: get_dir_from_filepath(path) returns the text before the
\* final "/" whenever the last path segment contains a ".", and path
\* unchanged otherwise, for every path; a path with no "/" is its own last
\* segment and the text before it is empty.
C17_Original ==
    pathRet[1] = "str" =>
        IF HasChar(NameOf(pathArg), ".")
        THEN pathRet = PyStr(ParentOf(pathArg))
        ELSE pathRet = PyStr(pathArg)

\* C18 as stated: to_file(path) refuses whenever the final segment of the
\* path contains no ".", even if a directory component contains one: it
\* returns None, creates no directory and writes no file.
C18_Original ==
    (call.op = "to_file" /\ ~HasChar(NameOf(path_to_python(call.path)), "."))
        => /\ call.ret = None
           /\ post = pre

\* The 0-based indices of a sequence of length m, in order.
Indices(m) == [k \in 1..m |-> k - 1]

\* The indices of the elements the replacement at index i averages: the
\* slices of lines 736-737 taken of the indices instead of the values.
Contributing(i) == Window(Indices(Len(data)), i, window_size)

\* The two windows around i clamped to the bounds of a sequence of length m.
ClampedWindows(m, i, half) ==
    (Max(0, i - half)..(i - 2)) \cup ((i + 1)..(Min(m, i + half) - 1))

\* C19 as stated: the replacement of an outlier at index i averages only
\* elements whose indices lie in the two windows clamped to the sequence
\* bounds, and none farther than window_size // 2 from i.
C19_Original ==
    Called =>
        \A i \in 0..(Len(data) - 1) :
            ~Kept(data, i, max_stdev) =>
                /\ data_removed[2][i + 1] =
                       average([k \in 1..Len(Contributing(i)) |->
                                   data[Contributing(i)[k] + 1]])
                /\ \A k \in 1..Len(Contributing(i)) :
                      /\ Contributing(i)[k] \in
                             ClampedWindows(Len(data), i, window_size \div 2)
                      /\ Abs(Contributing(i)[k] - i) <= window_size \div 2

\* Gamma to the power e, as a numerator over Scale (e <= 4).
GammaPow(e) == Scale \div Pow(2, e)

\* C20: with the script's inputs the reward moves back one state per
\* iteration: for every k from 1 to len(VnList)-1 and every index j,
\* VnList[k][j] is Gamma^(4-j) if j >= 5-k and 0 otherwise; so the vectors
\* never decrease element-wise and the last element of each is 1.
C20_BackwardPropagation ==
    ScriptInputs =>
        /\ \A k \in 1..(Len(VnList) - 1) : \A j \in 0..(NStates - 1) :
              VnList[k + 1][j + 1] =
                  IF j >= NStates - k THEN GammaPow(NStates - 1 - j) ELSE 0
        /\ \A k \in 1..(Len(VnList) - 1) : \A j \in 1..NStates :
              VnList[k][j] <= VnList[k + 1][j]
        /\ \A k \in 1..(Len(VnList) - 1) : VnList[k + 1][NStates] = Scale

\* The script has run to its end: the seed and six vectors.
C20_Witness ==
    /\ ScriptInputs
    /\ pcVn = "done"
    /\ Len(VnList) = 7
    /\ VnList[3] = <<0, 0, 0, Scale \div 2, Scale>>
    /\ VnList[6] = VnList[7]

====
